---- MODULE Spec2Model ----
(***************************************************************************)
(* data-ui: a generic CRUD surface over PostgreSQL.  Every handler of      *)
(* src/src/main.rs renders an SQL text from the request, sends it over a   *)
(* pooled connection and maps the outcome to an HTTP response.             *)
(*                                                                         *)
(* Text is modelled as a sequence of chunks.  The characters that matter   *)
(* to SQL quoting (double quote, single quote, semicolon, backslash) are   *)
(* always chunks of their own; any other chunk is a run of ordinary        *)
(* characters ("id", "varchar(50)", "CREATE TABLE ").  A rendered          *)
(* statement is such a text; the database lexes and parses it again, so    *)
(* what a handler wrote and what the database understood are two things.   *)
(***************************************************************************)
EXTENDS Integers, Sequences, FiniteSets, TLC

VARIABLES
    tables,     \* the public schema: directory name -> table (columns, key, rows)
    request,    \* the request handled last: [op, req, conn]
    outcome,    \* how it ended: "ok", the Error the handler returned, or "rejected"
    response,   \* the response it was answered with
    sql,        \* the statements the handler sent for it, in order
    tasks       \* the requests in flight, when requests run concurrently

vars == <<tables, request, outcome, response, sql, tasks>>

-----------------------------------------------------------------------------
(* Text *)

DQ == "\""
SQ == "'"
SEMI == ";"
BS == "\\"

\* Option<T>: None is the empty sequence, Some(v) the one-element sequence.
None == <<>>
Some(v) == <<v>>
IsSome(o) == Len(o) = 1

RECURSIVE Concat(_)
\* The concatenation of a sequence of texts.
Concat(ss) == IF ss = <<>> THEN <<>> ELSE Head(ss) \o Concat(Tail(ss))

RECURSIVE Join(_, _)
\* Vec<String>::join(sep)
Join(ss, sep) ==
    IF ss = <<>> THEN <<>>
    ELSE IF Len(ss) = 1 THEN Head(ss)
    ELSE Head(ss) \o <<sep>> \o Join(Tail(ss), sep)

\* The sequence f(s[1]), ..., f(s[n]).
Map(f(_), s) == [i \in 1..Len(s) |-> f(s[i])]

RECURSIVE Doubled(_, _)
\* s with every occurrence of the chunk q written twice.
Doubled(s, q) ==
    IF s = <<>> THEN <<>>
    ELSE (IF Head(s) = q THEN <<q, q>> ELSE <<Head(s)>>) \o Doubled(Tail(s), q)

\* postgres_protocol::escape::escape_identifier: wrap in double quotes and
\* double every embedded double quote.
escape_identifier(s) == <<DQ>> \o Doubled(s, DQ) \o <<DQ>>

\* postgres_protocol::escape::escape_literal: wrap in single quotes and double
\* every embedded single quote.
escape_literal(s) == <<SQ>> \o Doubled(s, SQ) \o <<SQ>>

-----------------------------------------------------------------------------
(* The database's lexer: a text becomes a sequence of tokens                *)
(*   [k |-> "raw", v |-> <<chunk>>]   text outside any quoting              *)
(*   [k |-> "ident", v |-> name]      a delimited identifier "..."          *)
(*   [k |-> "lit", v |-> value]       a string constant '...'               *)
(*   [k |-> "err", v |-> rest]        a quote that is never closed          *)

Tok(k, v) == [k |-> k, v |-> v]
Raw(c) == Tok("raw", <<c>>)

RECURSIVE LexFrom(_, _, _, _, _)
LexFrom(text, i, mode, cur, acc) ==
    IF i > Len(text)
    THEN IF mode = "out" THEN acc ELSE Append(acc, Tok("err", cur))
    ELSE
      LET c == text[i]
          q == IF mode = "ident" THEN DQ ELSE SQ
      IN  IF mode = "out"
          THEN IF c = DQ THEN LexFrom(text, i + 1, "ident", <<>>, acc)
               ELSE IF c = SQ THEN LexFrom(text, i + 1, "lit", <<>>, acc)
               ELSE LexFrom(text, i + 1, "out", <<>>, Append(acc, Raw(c)))
          ELSE IF c # q THEN LexFrom(text, i + 1, mode, Append(cur, c), acc)
               ELSE IF i < Len(text) /\ text[i + 1] = q
                    THEN LexFrom(text, i + 2, mode, Append(cur, q), acc)
                    ELSE LexFrom(text, i + 1, "out", <<>>, Append(acc, Tok(mode, cur)))

Lex(text) == LexFrom(text, 1, "out", <<>>, <<>>)

-----------------------------------------------------------------------------
(* Numbers in text *)

MaxInt == 13

Digit == <<"0", "1", "2", "3", "4", "5", "6", "7", "8", "9">>

RECURSIVE NatText(_)
NatText(n) == IF n < 10 THEN Digit[n + 1] ELSE NatText(n \div 10) \o Digit[(n % 10) + 1]

\* Display of an i64, as format!("{}") writes it.
IntText(n) == IF n < 0 THEN "-" \o NatText(0 - n) ELSE NatText(n)

\* The database reading a number: the inverse of IntText on the model's range.
IntRange == (0 - MaxInt) .. MaxInt
IsIntText(c) == \E n \in IntRange : IntText(n) = c
IntOf(c) == CHOOSE n \in IntRange : IntText(n) = c

-----------------------------------------------------------------------------
(* The statements the handlers render *)

\* const VALID_CONSTRAINTS
VALID_CONSTRAINTS == { <<"PRIMARY KEY">>, <<"NOT NULL">>, <<"UNIQUE">> }

\* LIMIT of the page query
PageSize == 10

\* create_directory: the type token of a column definition.
TypeToken(p) == escape_identifier(p.ty)

\* create_directory: the DEFAULT clause of a column definition.
DefaultClause(p) ==
    IF IsSome(p.default) THEN <<" DEFAULT ">> \o escape_literal(p.default[1]) ELSE <<>>

\* A constraint clause that writes whatever token the caller sent.
ConstraintPassThrough(p) ==
    IF IsSome(p.constraint) THEN <<" ">> \o p.constraint[1] ELSE <<>>

\* create_directory: the constraint clause, written only for an allow-listed token.
ConstraintClause(p) ==
    IF IsSome(p.constraint) /\ p.constraint[1] \in VALID_CONSTRAINTS
    THEN <<" ">> \o p.constraint[1]
    ELSE <<>>

\* create_directory: one column definition.
ColumnDef(p) ==
    escape_identifier(p.name) \o <<" ">> \o TypeToken(p) \o DefaultClause(p) \o ConstraintClause(p)

\* create_directory: CREATE TABLE {} ({})
CreateDirectorySql(req) ==
    <<"CREATE TABLE ">> \o escape_identifier(req.directory) \o <<" (">>
        \o Join(Map(ColumnDef, req.properties), ", ") \o <<")">>

\* A DROP TABLE that interpolates the name as it came.
DeleteDirectorySqlRaw(req) == <<"DROP TABLE ">> \o req.directory

\* delete_directory: DROP TABLE {}
DeleteDirectorySql(req) == <<"DROP TABLE ">> \o escape_identifier(req.directory)

\* directories: the catalog query for the tables of the public schema
DirectoriesSql == <<"SELECT TABLE_NAME FROM INFORMATION_SCHEMA.TABLES WHERE TABLE_SCHEMA = 'public'">>

\* objects: the column lookup in information_schema.columns
ColumnsSql(req) ==
    <<"SELECT column_name, data_type FROM information_schema.columns where table_name = ">>
        \o escape_literal(req.directory)

\* Option<i64>::unwrap_or(0)
CursorOrZero(cursor) == IF IsSome(cursor) THEN cursor[1] ELSE 0

\* A page query that always starts at the first row.
PageSqlFromStart(req) ==
    <<"SELECT row_to_json(">> \o escape_identifier(req.directory) \o <<".*) FROM ">>
        \o escape_identifier(req.directory)
        \o <<" LIMIT ", IntText(PageSize), " OFFSET ", IntText(0)>>

\* objects: SELECT row_to_json({0}.*) FROM {0} LIMIT 10 OFFSET {1}
PageSql(req) ==
    <<"SELECT row_to_json(">> \o escape_identifier(req.directory) \o <<".*) FROM ">>
        \o escape_identifier(req.directory)
        \o <<" LIMIT ", IntText(PageSize), " OFFSET ", IntText(CursorOrZero(req.cursor))>>

\* objects: SELECT COUNT(*) FROM {}
CountSql(req) == <<"SELECT COUNT(*) FROM ">> \o escape_identifier(req.directory)

\* objects, update_object, delete_object: the primary-key lookup, relName = $1
PrimaryKeySql == <<"SELECT pg_attribute.attname FROM pg_index, pg_class, pg_attribute, pg_namespace WHERE indisprimary AND relName = $1">>

\* HashMap::keys / HashMap::values of a map given as a sequence of <<key, value>>
Keys(props) == [i \in 1..Len(props) |-> props[i][1]]
Values(props) == [i \in 1..Len(props) |-> props[i][2]]

\* create_object: INSERT INTO {} ({names}) VALUES ({values})
CreateObjectSql(req) ==
    <<"INSERT INTO ">> \o escape_identifier(req.directory) \o <<" (">>
        \o Join(Map(escape_identifier, Keys(req.properties)), ", ")
        \o <<") VALUES (">>
        \o Join(Map(escape_literal, Values(req.properties)), ", ")
        \o <<")">>

\* update_object: one "{} = {}" of the SET list
Assignment(kv) == escape_literal(kv[1]) \o <<" = ">> \o escape_literal(kv[2])

\* update_object: UPDATE {} SET {} WHERE {} = $1
UpdateObjectSql(req, primary_key) ==
    <<"UPDATE ">> \o escape_identifier(req.directory) \o <<" SET ">>
        \o Join(Map(Assignment, req.properties), ", ")
        \o <<" WHERE ">> \o escape_identifier(primary_key) \o <<" = $1">>

\* delete_object: DELETE FROM {} WHERE {} = $1
DeleteObjectSql(req, primary_key) ==
    <<"DELETE FROM ">> \o escape_identifier(req.directory)
        \o <<" WHERE ">> \o escape_identifier(primary_key) \o <<" = $1">>

-----------------------------------------------------------------------------
(* The database's parser: the token sequence of one statement becomes the   *)
(* operation the database will run, or a syntax error.                      *)

SyntaxError == [op |-> "error"]

RECURSIVE Split(_, _)
\* The runs of toks between occurrences of the token sep.
Split(toks, sep) ==
    IF toks = <<>> THEN <<>>
    ELSE LET hits == { i \in 1..Len(toks) : toks[i] = sep }
         IN  IF hits = {} THEN <<toks>>
             ELSE LET i == CHOOSE j \in hits : \A h \in hits : j <= h
                  IN  <<SubSeq(toks, 1, i - 1)>> \o
                      (IF i = Len(toks) THEN <<(<<>>)>> ELSE Split(SubSeq(toks, i + 1, Len(toks)), sep))

\* A delimited identifier; the zero-length one is rejected.
IsIdent(t) == t.k = "ident" /\ t.v # <<>>
IsLit(t) == t.k = "lit"
IsNumber(t) == t.k = "raw" /\ IsIntText(t.v[1])

\* The constraint keywords of the column grammar.
ColumnConstraintKeywords == { "PRIMARY KEY", "NOT NULL", "UNIQUE" }

\* name type [DEFAULT literal] [constraint]
ColumnShape(g) ==
    /\ Len(g) >= 3
    /\ IsIdent(g[1])
    /\ g[2] = Raw(" ")
    /\ g[3].k \in {"ident", "raw"}
    /\ LET rest == SubSeq(g, 4, Len(g))
           afterDefault == IF Len(rest) >= 2 /\ rest[1] = Raw(" DEFAULT ") /\ IsLit(rest[2])
                           THEN SubSeq(rest, 3, Len(rest)) ELSE rest
       IN  \/ afterDefault = <<>>
           \/ /\ Len(afterDefault) = 2
              /\ afterDefault[1] = Raw(" ")
              /\ afterDefault[2].k = "raw"
              /\ afterDefault[2].v[1] \in ColumnConstraintKeywords

ColumnOf(g) ==
    LET rest == SubSeq(g, 4, Len(g))
        hasDefault == Len(rest) >= 2 /\ rest[1] = Raw(" DEFAULT ")
    IN  [name |-> g[1].v,
         ty |-> g[3],
         default |-> IF hasDefault THEN Some(rest[2].v) ELSE None,
         constraint |-> IF g[Len(g)].k = "raw" /\ Len(g) > 3 THEN Some(g[Len(g)].v[1]) ELSE None]

ParseCreate(toks) ==
    IF /\ Len(toks) >= 4
       /\ IsIdent(toks[2])
       /\ toks[3] = Raw(" (")
       /\ toks[Len(toks)] = Raw(")")
    THEN LET groups == Split(SubSeq(toks, 4, Len(toks) - 1), Raw(", "))
         IN  IF \A i \in 1..Len(groups) : ColumnShape(groups[i])
             THEN [op |-> "create", table |-> toks[2].v, cols |-> Map(ColumnOf, groups)]
             ELSE SyntaxError
    ELSE SyntaxError

ParseDrop(toks) ==
    IF Len(toks) = 2 /\ IsIdent(toks[2])
    THEN [op |-> "drop", table |-> toks[2].v]
    ELSE SyntaxError

ParseInsert(toks) ==
    LET mid == { i \in 1..Len(toks) : toks[i] = Raw(") VALUES (") }
    IN  IF /\ Len(toks) >= 7
           /\ IsIdent(toks[2])
           /\ toks[3] = Raw(" (")
           /\ toks[Len(toks)] = Raw(")")
           /\ Cardinality(mid) = 1
        THEN LET m == CHOOSE i \in mid : TRUE
                 names == Split(SubSeq(toks, 4, m - 1), Raw(", "))
                 vals == Split(SubSeq(toks, m + 1, Len(toks) - 1), Raw(", "))
             IN  IF /\ Len(names) >= 1
                    /\ Len(names) = Len(vals)
                    /\ \A i \in 1..Len(names) : Len(names[i]) = 1 /\ IsIdent(names[i][1])
                    /\ \A i \in 1..Len(vals) : Len(vals[i]) = 1 /\ IsLit(vals[i][1])
                 THEN [op |-> "insert", table |-> toks[2].v,
                       cols |-> [i \in 1..Len(names) |-> names[i][1].v],
                       vals |-> [i \in 1..Len(vals) |-> vals[i][1].v]]
                 ELSE SyntaxError
        ELSE SyntaxError

\* column = literal: the target of an assignment is a column name, never a string constant
AssignmentShape(g) == Len(g) = 3 /\ IsIdent(g[1]) /\ g[2] = Raw(" = ") /\ IsLit(g[3])

ParseUpdate(toks) ==
    LET n == Len(toks)
    IN  IF /\ n >= 7
           /\ IsIdent(toks[2])
           /\ toks[3] = Raw(" SET ")
           /\ toks[n - 2] = Raw(" WHERE ")
           /\ IsIdent(toks[n - 1])
           /\ toks[n] = Raw(" = $1")
        THEN LET sets == Split(SubSeq(toks, 4, n - 3), Raw(", "))
             IN  IF Len(sets) >= 1 /\ \A i \in 1..Len(sets) : AssignmentShape(sets[i])
                 THEN [op |-> "update", table |-> toks[2].v,
                       sets |-> [i \in 1..Len(sets) |-> <<sets[i][1].v, sets[i][3].v>>],
                       key |-> toks[n - 1].v]
                 ELSE SyntaxError
        ELSE SyntaxError

ParseDelete(toks) ==
    IF /\ Len(toks) = 5
       /\ IsIdent(toks[2])
       /\ toks[3] = Raw(" WHERE ")
       /\ IsIdent(toks[4])
       /\ toks[5] = Raw(" = $1")
    THEN [op |-> "delete", table |-> toks[2].v, key |-> toks[4].v]
    ELSE SyntaxError

ParsePage(toks) ==
    IF /\ Len(toks) = 8
       /\ IsIdent(toks[2])
       /\ toks[3] = Raw(".*) FROM ")
       /\ IsIdent(toks[4])
       /\ toks[5] = Raw(" LIMIT ")
       /\ IsNumber(toks[6])
       /\ toks[7] = Raw(" OFFSET ")
       /\ IsNumber(toks[8])
    THEN [op |-> "page", alias |-> toks[2].v, table |-> toks[4].v,
          limit |-> IntOf(toks[6].v[1]), offset |-> IntOf(toks[8].v[1])]
    ELSE SyntaxError

ParseCount(toks) ==
    IF Len(toks) = 2 /\ IsIdent(toks[2])
    THEN [op |-> "count", table |-> toks[2].v]
    ELSE SyntaxError

ParseColumns(toks) ==
    IF Len(toks) = 2 /\ IsLit(toks[2])
    THEN [op |-> "columns", table |-> toks[2].v]
    ELSE SyntaxError

ParseTokens(text, toks) ==
        IF toks = <<>> THEN SyntaxError
        ELSE IF toks[1] = Raw("CREATE TABLE ") THEN ParseCreate(toks)
        ELSE IF toks[1] = Raw("DROP TABLE ") THEN ParseDrop(toks)
        ELSE IF toks[1] = Raw("INSERT INTO ") THEN ParseInsert(toks)
        ELSE IF toks[1] = Raw("UPDATE ") THEN ParseUpdate(toks)
        ELSE IF toks[1] = Raw("DELETE FROM ") THEN ParseDelete(toks)
        ELSE IF toks[1] = Raw("SELECT row_to_json(") THEN ParsePage(toks)
        ELSE IF toks[1] = Raw("SELECT COUNT(*) FROM ") THEN ParseCount(toks)
        ELSE IF toks[1] = Raw(ColumnsSql([directory |-> <<>>])[1]) THEN ParseColumns(toks)
        ELSE IF text = PrimaryKeySql THEN [op |-> "primary_key"]
        ELSE IF text = DirectoriesSql THEN [op |-> "tables"]
        ELSE SyntaxError

\* The operation a statement text denotes.
Parse(text) == ParseTokens(text, Lex(text))

-----------------------------------------------------------------------------
(* JSON values (serde_json::Value) and stored values *)

JNull == [j |-> "null"]
JNum(n) == [j |-> "number", n |-> n]
JStr(s) == [j |-> "string", s |-> s]
\* an object with the one member k: v
JObj(k, v) == [j |-> "object", k |-> k, v |-> v]
\* a row object: column name -> JSON value
JRow(m) == [j |-> "row", m |-> m]

RECURSIVE EscapeJson(_)
\* The body of a JSON string: quote and backslash are written behind a backslash.
EscapeJson(s) ==
    IF s = <<>> THEN <<>>
    ELSE (IF Head(s) \in {DQ, BS} THEN <<BS, Head(s)>> ELSE <<Head(s)>>) \o EscapeJson(Tail(s))

RECURSIVE to_string(_)
\* serde_json::to_string: the compact serialized form of a value.
to_string(v) ==
    CASE v.j = "null" -> <<"null">>
      [] v.j = "number" -> <<IntText(v.n)>>
      [] v.j = "string" -> <<DQ>> \o EscapeJson(v.s) \o <<DQ>>
      [] v.j = "object" -> <<"{", DQ>> \o EscapeJson(v.k) \o <<DQ, ":">> \o to_string(v.v) \o <<"}">>

\* The JSON documents the model stores in json/jsonb columns.
JsonDocs ==
    LET leaves == { JNull, JNum(1), JStr(<<"x">>), JStr(<<"a", DQ>>) }
    IN  leaves \cup { JObj(<<"a">>, l) : l \in leaves }

\* The database reading a JSON text: the inverse of to_string on JsonDocs.
IsJsonText(s) == \E d \in JsonDocs : to_string(d) = s
JsonOf(s) == CHOOSE d \in JsonDocs : to_string(d) = s

SqlNull == [t |-> "null"]
IntV(n) == [t |-> "int", n |-> n]
TextV(s) == [t |-> "text", s |-> s]
JsonV(d) == [t |-> "json", d |-> d]

\* row_to_json of one stored value
ValueToJson(v) ==
    CASE v.t = "null" -> JNull
      [] v.t = "int" -> JNum(v.n)
      [] v.t = "text" -> JStr(v.s)
      [] v.t = "json" -> v.d

-----------------------------------------------------------------------------
(* The database: the tables of the public schema                            *)
(*   tables[name] = [cols |-> <<[name, ty, serial, notnull, unique,          *)
(*                               default]>>,                                  *)
(*                   key  |-> the columns of the primary-key index,          *)
(*                   rows |-> the rows in heap order, each column -> value,  *)
(*                   next |-> the next value of the table's sequences]       *)

\* Type names a delimited identifier resolves to, with the column type they give.
TypeNames == { <<"serial">>, <<"text">>, <<"json">>, <<"jsonb">>, <<"varchar">>, <<"int4">> }
ColumnType(name) == IF name = <<"serial">> THEN "int4" ELSE name[1]

\* information_schema.columns.data_type
DataType(ty) ==
    CASE ty = "int4" -> <<"integer">>
      [] ty = "varchar" -> <<"character varying">>
      [] OTHER -> <<ty>>

\* A string constant read as a value of a column type.
CanCoerce(s, ty) ==
    CASE ty = "int4" -> Len(s) = 1 /\ IsIntText(s[1])
      [] ty \in {"json", "jsonb"} -> IsJsonText(s)
      [] OTHER -> TRUE

Coerce(s, ty) ==
    CASE ty = "int4" -> IntV(IntOf(s[1]))
      [] ty \in {"json", "jsonb"} -> JsonV(JsonOf(s))
      [] OTHER -> TextV(s)

ColNames(t) == { t.cols[i].name : i \in 1..Len(t.cols) }
Col(t, name) == t.cols[CHOOSE i \in 1..Len(t.cols) : t.cols[i].name = name]

\* NOT NULL and UNIQUE hold of the rows, and no two rows agree on every column
\* of the primary key.
RowsValid(t, rows) ==
    /\ \A i \in 1..Len(t.cols) :
        LET c == t.cols[i]
        IN  /\ c.notnull => \A r \in 1..Len(rows) : rows[r][c.name] # SqlNull
            /\ c.unique => \A r1, r2 \in 1..Len(rows) :
                   (r1 # r2 /\ rows[r1][c.name] # SqlNull) => rows[r1][c.name] # rows[r2][c.name]
    /\ t.key # <<>> =>
          \A r1, r2 \in 1..Len(rows) :
              r1 # r2 => \E i \in 1..Len(t.key) : rows[r1][t.key[i]] # rows[r2][t.key[i]]

Failed(tbls) == [ok |-> FALSE, rows |-> <<>>, tables |-> tbls]
Done(tbls, rows) == [ok |-> TRUE, rows |-> rows, tables |-> tbls]

\* The type of a definition resolves and its default reads as that type.
ColumnResolves(c) ==
    /\ c.ty.k = "ident"
    /\ c.ty.v \in TypeNames
    /\ IsSome(c.default) => CanCoerce(c.default[1], ColumnType(c.ty.v))

NewColumn(c) ==
    LET ty == ColumnType(c.ty.v)
    IN  [name |-> c.name,
         ty |-> ty,
         serial |-> c.ty.v = <<"serial">>,
         notnull |-> c.ty.v = <<"serial">> \/ c.constraint \in {Some("PRIMARY KEY"), Some("NOT NULL")},
         unique |-> c.constraint \in {Some("PRIMARY KEY"), Some("UNIQUE")},
         default |-> IF IsSome(c.default) THEN Some(Coerce(c.default[1], ty)) ELSE None]

RunCreate(tbls, st) ==
    LET keyCols == { i \in 1..Len(st.cols) : st.cols[i].constraint = Some("PRIMARY KEY") }
    IN  IF /\ st.table \notin DOMAIN tbls
           /\ \A i \in 1..Len(st.cols) : ColumnResolves(st.cols[i])
           /\ \A i, k \in 1..Len(st.cols) : i # k => st.cols[i].name # st.cols[k].name
           /\ Cardinality(keyCols) <= 1
        THEN LET t == [cols |-> Map(NewColumn, st.cols),
                       key |-> IF keyCols = {} THEN <<>>
                               ELSE <<st.cols[CHOOSE i \in keyCols : TRUE].name>>,
                       rows |-> <<>>,
                       next |-> 1]
             IN  Done([n \in DOMAIN tbls \cup {st.table} |-> IF n = st.table THEN t ELSE tbls[n]], <<>>)
        ELSE Failed(tbls)

RunDrop(tbls, st) ==
    IF st.table \in DOMAIN tbls
    THEN Done([n \in DOMAIN tbls \ {st.table} |-> tbls[n]], <<>>)
    ELSE Failed(tbls)


\* The row an INSERT of the named columns builds: a column that is not named
\* takes the next sequence value, its default, or NULL.
InsertedRow(t, st) ==
    [n \in ColNames(t) |->
        IF \E i \in 1..Len(st.cols) : st.cols[i] = n
        THEN Coerce(st.vals[CHOOSE i \in 1..Len(st.cols) : st.cols[i] = n], Col(t, n).ty)
        ELSE IF Col(t, n).serial THEN IntV(t.next)
        ELSE IF IsSome(Col(t, n).default) THEN Col(t, n).default[1]
        ELSE SqlNull]

RunInsert(tbls, st) ==
    IF /\ st.table \in DOMAIN tbls
       /\ \A i \in 1..Len(st.cols) : st.cols[i] \in ColNames(tbls[st.table])
       /\ \A i, k \in 1..Len(st.cols) : i # k => st.cols[i] # st.cols[k]
       /\ \A i \in 1..Len(st.cols) : CanCoerce(st.vals[i], Col(tbls[st.table], st.cols[i]).ty)
    THEN LET t == tbls[st.table]
             rows == Append(t.rows, InsertedRow(t, st))
             drew == \E i \in 1..Len(t.cols) :
                        t.cols[i].serial /\ \A k \in 1..Len(st.cols) : st.cols[k] # t.cols[i].name
         IN  IF RowsValid(t, rows)
             THEN Done([tbls EXCEPT ![st.table] =
                          [t EXCEPT !.rows = rows, !.next = IF drew THEN t.next + 1 ELSE t.next]], <<>>)
             ELSE Failed(tbls)
    ELSE Failed(tbls)

\* A String parameter is sent only for a parameter of a character type
\* (<String as ToSql>::accepts); the parameter of "key = $1" has the key's type.
StringParamAccepted(ty) == ty \in {"text", "varchar"}

\* The rows "WHERE key = $1" selects.
Matches(row, key, param) == row[key] = TextV(param)

RunUpdate(tbls, st, param) ==
    IF /\ st.table \in DOMAIN tbls
       /\ st.key \in ColNames(tbls[st.table])
       /\ \A i \in 1..Len(st.sets) : st.sets[i][1] \in ColNames(tbls[st.table])
       /\ \A i, k \in 1..Len(st.sets) : i # k => st.sets[i][1] # st.sets[k][1]
       /\ \A i \in 1..Len(st.sets) :
             CanCoerce(st.sets[i][2], Col(tbls[st.table], st.sets[i][1]).ty)
       /\ StringParamAccepted(Col(tbls[st.table], st.key).ty)
    THEN LET t == tbls[st.table]
             assigned(row) ==
                 [n \in ColNames(t) |->
                     IF \E i \in 1..Len(st.sets) : st.sets[i][1] = n
                     THEN Coerce(st.sets[CHOOSE i \in 1..Len(st.sets) : st.sets[i][1] = n][2],
                                 Col(t, n).ty)
                     ELSE row[n]]
             rows == [r \in 1..Len(t.rows) |->
                         IF Matches(t.rows[r], st.key, param) THEN assigned(t.rows[r]) ELSE t.rows[r]]
         IN  IF RowsValid(t, rows)
             THEN Done([tbls EXCEPT ![st.table] = [t EXCEPT !.rows = rows]], <<>>)
             ELSE Failed(tbls)
    ELSE Failed(tbls)

RunDelete(tbls, st, param) ==
    IF /\ st.table \in DOMAIN tbls
       /\ st.key \in ColNames(tbls[st.table])
       /\ StringParamAccepted(Col(tbls[st.table], st.key).ty)
    THEN LET t == tbls[st.table]
             kept(row) == ~Matches(row, st.key, param)
         IN  Done([tbls EXCEPT ![st.table] = [t EXCEPT !.rows = SelectSeq(t.rows, kept)]], <<>>)
    ELSE Failed(tbls)

Min(a, b) == IF a <= b THEN a ELSE b

\* SELECT row_to_json(t.*) FROM t LIMIT n OFFSET m: rows m+1 .. m+n in heap order
RunPage(tbls, st) ==
    IF /\ st.table \in DOMAIN tbls
       /\ st.alias = st.table
       /\ st.limit >= 0
       /\ st.offset >= 0
    THEN LET t == tbls[st.table]
             page == SubSeq(t.rows, st.offset + 1, Min(Len(t.rows), st.offset + st.limit))
         IN  Done(tbls, [i \in 1..Len(page) |->
                            <<Some(JRow([n \in ColNames(t) |-> ValueToJson(page[i][n])]))>>])
    ELSE Failed(tbls)

RunCount(tbls, st) ==
    IF st.table \in DOMAIN tbls
    THEN Done(tbls, << <<Len(tbls[st.table].rows)>> >>)
    ELSE Failed(tbls)

\* information_schema.columns: no row for a table that does not exist
RunColumns(tbls, st) ==
    IF st.table \in DOMAIN tbls
    THEN LET t == tbls[st.table]
         IN  Done(tbls, [i \in 1..Len(t.cols) |-> <<t.cols[i].name, DataType(t.cols[i].ty)>>])
    ELSE Done(tbls, <<>>)

\* One row for each column of the table's primary-key index.
RunPrimaryKey(tbls, param) ==
    IF param \in DOMAIN tbls
    THEN Done(tbls, [i \in 1..Len(tbls[param].key) |-> <<tbls[param].key[i]>>])
    ELSE Done(tbls, <<>>)

\* One row for each table of the public schema, in name order.
RECURSIVE NameRows(_)
NameRows(names) ==
    IF names = {} THEN <<>>
    ELSE LET n == CHOOSE x \in names : TRUE IN << <<n>> >> \o NameRows(names \ {n})

RunTables(tbls) == Done(tbls, NameRows(DOMAIN tbls))

Run(tbls, st, param) ==
        CASE st.op = "create" -> RunCreate(tbls, st)
          [] st.op = "drop" -> RunDrop(tbls, st)
          [] st.op = "insert" -> RunInsert(tbls, st)
          [] st.op = "update" -> RunUpdate(tbls, st, param)
          [] st.op = "delete" -> RunDelete(tbls, st, param)
          [] st.op = "page" -> RunPage(tbls, st)
          [] st.op = "count" -> RunCount(tbls, st)
          [] st.op = "columns" -> RunColumns(tbls, st)
          [] st.op = "primary_key" -> RunPrimaryKey(tbls, param)
          [] st.op = "tables" -> RunTables(tbls)
          [] OTHER -> Failed(tbls)

\* Client::query: the statement text is parsed and run with its one parameter.
Execute(tbls, text, param) == Run(tbls, Parse(text), param)

AtMostOneRow(tbls, r) == IF r.ok /\ Len(r.rows) > 1 THEN Failed(tbls) ELSE r

\* Client::query_opt: as query, and more than one row is an error.
query_opt(tbls, text, param) == AtMostOneRow(tbls, Execute(tbls, text, param))

-----------------------------------------------------------------------------
(* Errors and responses (error.rs) *)

\* enum Error
Errors == { "Bb8Postgres", "Postgres", "Json", "NoPrimaryKey" }

TextBody(text) == [kind |-> "text", text |-> text]
EmptyBody == [kind |-> "empty"]

\* A mapping that reports database errors as the client's fault, with their name.
into_response_naming(e) ==
    IF e \in {"NoPrimaryKey", "Postgres"}
    THEN [status |-> 400, body |-> TextBody(e)]
    ELSE [status |-> 500, body |-> TextBody("Unexpected error")]

\* impl IntoResponse for Error
into_response(e) ==
    IF e = "NoPrimaryKey"
    THEN [status |-> 400, body |-> TextBody("no primary key found for table")]
    ELSE [status |-> 500, body |-> TextBody("Unexpected error")]

\* What a handler returns: Err(e) or Ok(body), with the tables it left and
\* the statements it sent.
Err(e, tbls, sent) == [error |-> Some(e), body |-> EmptyBody, tables |-> tbls, sent |-> sent]
Ok(body, tbls, sent) == [error |-> None, body |-> body, tables |-> tbls, sent |-> sent]

\* The response to a handler's return value.
Respond(ret) ==
    IF IsSome(ret.error) THEN into_response(ret.error[1])
    ELSE [status |-> 200, body |-> ret.body]

\* The answer of the extractor to a request it cannot deserialize.
Rejection == [status |-> 400, body |-> TextBody("Failed to deserialize query string")]

-----------------------------------------------------------------------------
(* The handlers (main.rs).  conn: whether pool.get() yields a connection.   *)

\* Json(tables) of the rows of the catalog query
DirectoriesReturn(tbls, r) ==
    IF ~r.ok THEN Err("Postgres", tbls, <<DirectoriesSql>>)
    ELSE Ok([kind |-> "directories", names |-> [i \in 1..Len(r.rows) |-> r.rows[i][1]]],
            r.tables, <<DirectoriesSql>>)

directories(tbls, conn) ==
    IF ~conn THEN Err("Bb8Postgres", tbls, <<>>)
    ELSE DirectoriesReturn(tbls, Execute(tbls, DirectoriesSql, <<>>))

\* conn.query(&query, ..).await?; Ok(()) after the statements in sent
QueryReturn(tbls, sent, r) ==
    IF ~r.ok THEN Err("Postgres", tbls, sent) ELSE Ok(EmptyBody, r.tables, sent)

create_directory(tbls, req, conn) ==
    IF ~conn THEN Err("Bb8Postgres", tbls, <<>>)
    ELSE QueryReturn(tbls, <<CreateDirectorySql(req)>>, Execute(tbls, CreateDirectorySql(req), <<>>))

\* A delete that looks the name up first and answers success when it is absent.
delete_directory_if_exists(tbls, req, conn) ==
    IF ~conn THEN Err("Bb8Postgres", tbls, <<>>)
    ELSE IF req.directory \notin DOMAIN tbls THEN Ok(EmptyBody, tbls, <<>>)
    ELSE QueryReturn(tbls, <<DeleteDirectorySql(req)>>, Execute(tbls, DeleteDirectorySql(req), <<>>))

delete_directory(tbls, req, conn) ==
    IF ~conn THEN Err("Bb8Postgres", tbls, <<>>)
    ELSE QueryReturn(tbls, <<DeleteDirectorySql(req)>>, Execute(tbls, DeleteDirectorySql(req), <<>>))

\* A type test that knows json alone.
IsJsonOnly(ty) == ty = <<"json">>

\* objects: ty == "json" || ty == "jsonb"
IsJsonType(ty) == ty = <<"json">> \/ ty = <<"jsonb">>

\* objects: the re-encoding loop over the members of one row object; a member
\* is re-encoded when the first property of its name has a JSON type.
Reencode(properties, object) ==
    IF IsSome(object) /\ object[1].j = "row"
    THEN Some(JRow([n \in DOMAIN object[1].m |->
            LET found == { i \in 1..Len(properties) : properties[i][1] = n }
            IN  IF found # {} /\ IsJsonType(properties[CHOOSE i \in found : \A k \in found : i <= k][2])
                THEN JStr(to_string(object[1].m[n]))
                ELSE object[1].m[n]]))
    ELSE object

\* objects, given the results r1..r4 of its four queries q1..q4
ObjectsReturn(tbls, q1, q2, q3, q4, r1, r2, r3, r4) ==
    IF ~r1.ok THEN Err("Postgres", tbls, <<q1>>)
    ELSE IF ~r2.ok THEN Err("Postgres", tbls, <<q1, q2>>)
    ELSE IF ~r3.ok THEN Err("Postgres", tbls, <<q1, q2, q3>>)
    ELSE IF ~r4.ok THEN Err("Postgres", tbls, <<q1, q2, q3, q4>>)
    ELSE Ok([kind |-> "objects",
             objects |-> [i \in 1..Len(r2.rows) |-> Reencode(r1.rows, r2.rows[i][1])],
             property_names |-> [i \in 1..Len(r1.rows) |-> r1.rows[i][1]],
             primary_key |-> IF r4.rows = <<>> THEN None ELSE Some(r4.rows[1][1]),
             count |-> IF r3.rows = <<>> THEN 0 ELSE r3.rows[1][1]],
            tbls, <<q1, q2, q3, q4>>)

objects(tbls, req, conn) ==
    IF ~conn THEN Err("Bb8Postgres", tbls, <<>>)
    ELSE ObjectsReturn(tbls, ColumnsSql(req), PageSql(req), CountSql(req), PrimaryKeySql,
                       Execute(tbls, ColumnsSql(req), <<>>),
                       Execute(tbls, PageSql(req), <<>>),
                       query_opt(tbls, CountSql(req), <<>>),
                       query_opt(tbls, PrimaryKeySql, req.directory))

create_object(tbls, req, conn) ==
    IF ~conn THEN Err("Bb8Postgres", tbls, <<>>)
    ELSE QueryReturn(tbls, <<CreateObjectSql(req)>>, Execute(tbls, CreateObjectSql(req), <<>>))

\* update_object, given the result k of the primary-key lookup
UpdateWithKey(tbls, req, k) ==
    IF ~k.ok THEN Err("Postgres", tbls, <<PrimaryKeySql>>)
    ELSE IF k.rows = <<>> THEN Err("NoPrimaryKey", tbls, <<PrimaryKeySql>>)
    ELSE QueryReturn(tbls, <<PrimaryKeySql, UpdateObjectSql(req, k.rows[1][1])>>,
                     Execute(tbls, UpdateObjectSql(req, k.rows[1][1]), req.id))

update_object(tbls, req, conn) ==
    IF ~conn THEN Err("Bb8Postgres", tbls, <<>>)
    ELSE UpdateWithKey(tbls, req, query_opt(tbls, PrimaryKeySql, req.directory))

\* A delete that falls back to a column named id when no key is found.
DeleteWithKeyOrId(tbls, req, k) ==
    IF ~k.ok THEN Err("Postgres", tbls, <<PrimaryKeySql>>)
    ELSE QueryReturn(tbls, <<PrimaryKeySql, DeleteObjectSql(req, <<"id">>)>>,
                     Execute(tbls, DeleteObjectSql(req, <<"id">>), req.id))

\* delete_object, given the result k of the primary-key lookup
DeleteWithKey(tbls, req, k) ==
    IF ~k.ok THEN Err("Postgres", tbls, <<PrimaryKeySql>>)
    ELSE IF k.rows = <<>> THEN Err("NoPrimaryKey", tbls, <<PrimaryKeySql>>)
    ELSE QueryReturn(tbls, <<PrimaryKeySql, DeleteObjectSql(req, k.rows[1][1])>>,
                     Execute(tbls, DeleteObjectSql(req, k.rows[1][1]), req.id))

delete_object(tbls, req, conn) ==
    IF ~conn THEN Err("Bb8Postgres", tbls, <<>>)
    ELSE DeleteWithKey(tbls, req, query_opt(tbls, PrimaryKeySql, req.directory))

\* struct UpdateObjectRequest: id, directory and properties are all required
\* (a field absent from the request is None here).
UpdateObjectRequestFields(req) == IsSome(req.properties)

\* struct DeleteObjectRequest: id and directory
DeleteObjectRequestFields(req) == TRUE

\* delete_object's extractor: Query<UpdateObjectRequest>
DeleteObjectExtracts(req) == UpdateObjectRequestFields(req)

-----------------------------------------------------------------------------
(* The service: one request at a time against the database *)

\* rows a table may hold before the model stops inserting
MaxRows == 2

Property(name, ty, default, constraint) ==
    [name |-> <<name>>, ty |-> <<ty>>, default |-> default, constraint |-> constraint]

Directories == { <<"t">> }

\* The column sets createDirectory is called with.
Schemas ==
    { << Property("id", "serial", None, Some(<<"PRIMARY KEY">>)), Property("label", "text", None, None) >>,
      << Property("label", "text", None, None) >>,
      << Property("id", "text", None, Some(<<"PRIMARY KEY">>)),
         Property("data", "jsonb", None, None),
         Property("label", "text", Some(<<"x">>), Some(<<"NOT NULL">>)) >>,
      << Property("name", "varchar(50)", None, None) >>,
      << Property("k", "text", None, Some(<<"CHECK (1=1)">>)), Property("doc", "json", None, None) >> }

\* The property maps createObject and updateObject are called with.
PropertyMaps ==
    { <<>>,
      << <<(<<"label">>), <<"x">>>> >>,
      << <<(<<"label">>), <<"y">>>> >>,
      << <<(<<"id">>), <<"a">>>>, <<(<<"data">>), <<"{", DQ, "a", DQ, ":", "1", "}">>>> >>,
      << <<(<<"doc">>), <<"1">>>>, <<(<<"k">>), <<"a">>>> >>,
      << <<(<<"id">>), <<"1">>>> >> }

Ids == { <<"1">>, <<"a">> }

Cursors == { None, Some(0), Some(1), Some(0 - 1) }

Finish(op, req, conn, ret) ==
    /\ tables' = ret.tables
    /\ request' = [op |-> op, req |-> req, conn |-> conn]
    /\ outcome' = IF IsSome(ret.error) THEN ret.error[1] ELSE "ok"
    /\ response' = Respond(ret)
    /\ sql' = ret.sent
    /\ UNCHANGED tasks

Reject(op, req) ==
    /\ request' = [op |-> op, req |-> req, conn |-> FALSE]
    /\ outcome' = "rejected"
    /\ response' = Rejection
    /\ sql' = <<>>
    /\ UNCHANGED <<tables, tasks>>

ListDirectories ==
    \E conn \in BOOLEAN :
        Finish("listDirectories", [directory |-> <<>>], conn, directories(tables, conn))

CreateDirectoryOf(dirs, schemas) ==
    \E d \in dirs, ps \in schemas, conn \in BOOLEAN :
        LET req == [directory |-> d, properties |-> ps]
        IN  Finish("createDirectory", req, conn, create_directory(tables, req, conn))

DeleteDirectory ==
    \E d \in Directories, conn \in BOOLEAN :
        LET req == [directory |-> d]
        IN  Finish("deleteDirectory", req, conn, delete_directory(tables, req, conn))

ListObjectsOf(dirs, cursors) ==
    \E d \in dirs, c \in cursors, conn \in BOOLEAN :
        LET req == [directory |-> d, cursor |-> c]
        IN  Finish("listObjects", req, conn, objects(tables, req, conn))

\* The model stops inserting into a table that holds limit rows.
CreateObjectOf(dirs, maps, limit) ==
    \E d \in dirs, ps \in maps, conn \in BOOLEAN :
        LET req == [directory |-> d, properties |-> ps]
        IN  /\ d \in DOMAIN tables => Len(tables[d].rows) < limit
            /\ Finish("createObject", req, conn, create_object(tables, req, conn))

UpdateObject ==
    \E d \in Directories, id \in Ids, ps \in PropertyMaps, conn \in BOOLEAN :
        LET req == [directory |-> d, id |-> id, properties |-> ps]
        IN  Finish("updateObject", req, conn, update_object(tables, req, conn))

DeleteObject ==
    \E d \in Directories, id \in Ids, ps \in {None, Some(<<>>)}, conn \in BOOLEAN :
        LET req == [directory |-> d, id |-> id, properties |-> ps]
        IN  IF DeleteObjectExtracts(req)
            THEN Finish("deleteObject", req, conn, delete_object(tables, req, conn))
            ELSE Reject("deleteObject", req)

CreateDirectory == CreateDirectoryOf(Directories, Schemas)
ListObjects == ListObjectsOf(Directories, Cursors)
CreateObject == CreateObjectOf(Directories, PropertyMaps, MaxRows)

Init ==
    /\ tables = <<>>
    /\ request = [op |-> "none"]
    /\ outcome = "none"
    /\ response = [status |-> 0, body |-> EmptyBody]
    /\ sql = <<>>
    /\ tasks = <<>>

Next ==
    \/ ListDirectories
    \/ CreateDirectory
    \/ DeleteDirectory
    \/ ListObjects
    \/ CreateObject
    \/ UpdateObject
    \/ DeleteObject

Spec == Init /\ [][Next]_vars

-----------------------------------------------------------------------------
(* Pagination: one directory filled row by row and listed at every cursor *)

\* rows the paginated directory may hold
MaxPageRows == 12

PageSchemas == { << Property("label", "text", None, None) >> }
PageMaps == { << <<(<<"label">>), <<"x">>>> >> }
PageCursors == { None } \cup { Some(c) : c \in (0 - 1) .. (MaxPageRows + 1) }

CreatePagedDirectory == CreateDirectoryOf(Directories, PageSchemas)
CreatePagedObject == CreateObjectOf(Directories, PageMaps, MaxPageRows)
ListPagedObjects == ListObjectsOf(Directories, PageCursors)

NextPage ==
    \/ CreatePagedDirectory
    \/ CreatePagedObject
    \/ ListPagedObjects

SpecPage == Init /\ [][NextPage]_vars

-----------------------------------------------------------------------------
(* Escaping: every string of a request, drawn from texts with quotes,       *)
(* semicolons, backslashes, spaces and keywords, through every renderer     *)

\* length of the strings injected
MaxLen == 2

Alphabet == { "a", DQ, SQ, SEMI, BS, "a b", "DROP TABLE" }
Strings == UNION { [1..n -> Alphabet] : n \in 0..MaxLen }

\* The constraint tokens createDirectory is given: the allow-list, its
\* near misses, and every injected string.
ConstraintInputs ==
    { None } \cup { Some(c) : c \in VALID_CONSTRAINTS }
        \cup { Some(<<"primary key">>), Some(<<"PRIMARY KEY", " ", "UNIQUE">>), Some(<<"CHECK (1=1)">>) }
        \cup { Some(s) : s \in Strings }

\* The handler's statements for the first request, the database left out.
Render(op, req, texts) ==
    /\ request.op = "none"
    /\ request' = [op |-> op, req |-> req, conn |-> TRUE]
    /\ sql' = texts
    /\ UNCHANGED <<tables, outcome, response, tasks>>

RenderCreateDirectory ==
    \E s \in Strings, slot \in {"directory", "name", "ty", "default", "none"}, c \in ConstraintInputs :
        LET pick(at, base) == IF slot = at THEN s ELSE base
            req == [directory |-> pick("directory", <<"t">>),
                    properties |->
                      << [name |-> <<"id">>, ty |-> <<"serial">>, default |-> None,
                          constraint |-> Some(<<"PRIMARY KEY">>)],
                         [name |-> pick("name", <<"label">>), ty |-> pick("ty", <<"text">>),
                          default |-> IF slot = "default" THEN Some(s) ELSE None,
                          constraint |-> c] >>]
        IN  /\ slot = "none" \/ c \in { None, Some(<<"UNIQUE">>) }
            /\ slot = "none" => s = <<>>
            /\ Render("createDirectory", req, <<CreateDirectorySql(req)>>)

RenderDeleteDirectory ==
    \E s \in Strings :
        LET req == [directory |-> s] IN Render("deleteDirectory", req, <<DeleteDirectorySql(req)>>)

RenderListObjects ==
    \E s \in Strings, c \in Cursors :
        LET req == [directory |-> s, cursor |-> c]
        IN  Render("listObjects", req, <<ColumnsSql(req), PageSql(req), CountSql(req), PrimaryKeySql>>)

RenderCreateObject ==
    \E s \in Strings, slot \in {"directory", "key", "value"} :
        LET pick(at, base) == IF slot = at THEN s ELSE base
            req == [directory |-> pick("directory", <<"t">>),
                    properties |-> << <<pick("key", <<"label">>), pick("value", <<"x">>)>>,
                                      <<(<<"id">>), <<"1">>>> >>]
        IN  Render("createObject", req, <<CreateObjectSql(req)>>)

RenderUpdateObject ==
    \E s \in Strings, slot \in {"directory", "key", "value", "primary_key"} :
        LET pick(at, base) == IF slot = at THEN s ELSE base
            req == [directory |-> pick("directory", <<"t">>), id |-> <<"1">>,
                    primary_key |-> pick("primary_key", <<"id">>),
                    properties |-> << <<pick("key", <<"label">>), pick("value", <<"y">>)>>,
                                      <<(<<"data">>), <<"1">>>> >>]
        IN  Render("updateObject", req, <<PrimaryKeySql, UpdateObjectSql(req, req.primary_key)>>)

RenderDeleteObject ==
    \E s \in Strings, slot \in {"directory", "primary_key"} :
        LET pick(at, base) == IF slot = at THEN s ELSE base
            req == [directory |-> pick("directory", <<"t">>), id |-> <<"1">>,
                    primary_key |-> pick("primary_key", <<"id">>)]
        IN  Render("deleteObject", req, <<PrimaryKeySql, DeleteObjectSql(req, req.primary_key)>>)

NextEscape ==
    \/ RenderCreateDirectory
    \/ RenderDeleteDirectory
    \/ RenderListObjects
    \/ RenderCreateObject
    \/ RenderUpdateObject
    \/ RenderDeleteObject

SpecEscape == Init /\ [][NextEscape]_vars

-----------------------------------------------------------------------------
(* Key shapes: the service in front of a database that already holds a      *)
(* table, made by another client, whose primary key has no, one or two      *)
(* columns                                                                  *)

\* rows the existing table may hold
MaxKeyRows == 2

TextColumn(name, notnull) ==
    [name |-> <<name>>, ty |-> "text", serial |-> FALSE, notnull |-> notnull,
     unique |-> FALSE, default |-> None]

\* The table t (a text, b text, label text) with the given primary key.
ExistingTable(key) ==
    [cols |-> << TextColumn("a", key # <<>>), TextColumn("b", Len(key) > 1), TextColumn("label", FALSE) >>,
     key |-> key,
     rows |-> <<>>,
     next |-> 1]

KeyShapes == { <<>>, << <<"a">> >>, << <<"a">>, <<"b">> >> }

ExistingDatabases == { [d \in Directories |-> ExistingTable(key)] : key \in KeyShapes }

KeyMaps ==
    { << <<(<<"a">>), <<"1">>>>, <<(<<"b">>), <<"1">>>> >>,
      << <<(<<"a">>), <<"1">>>>, <<(<<"b">>), <<"2">>>> >>,
      << <<(<<"a">>), <<"2">>>>, <<(<<"b">>), <<"1">>>> >> }

KeyIds == { <<"1">>, <<"2">> }

ListKeyedObjects == ListObjectsOf(Directories, { None, Some(1) })

CreateKeyedObject == CreateObjectOf(Directories, KeyMaps, MaxKeyRows)

UpdateKeyedObject ==
    \E d \in Directories, id \in KeyIds, conn \in BOOLEAN :
        LET req == [directory |-> d, id |-> id, properties |-> << <<(<<"label">>), <<"y">>>> >>]
        IN  Finish("updateObject", req, conn, update_object(tables, req, conn))

DeleteKeyedObject ==
    \E d \in Directories, id \in KeyIds, conn \in BOOLEAN :
        LET req == [directory |-> d, id |-> id, properties |-> Some(<<>>)]
        IN  Finish("deleteObject", req, conn, delete_object(tables, req, conn))

InitKeys ==
    /\ tables \in ExistingDatabases
    /\ request = [op |-> "none"]
    /\ outcome = "none"
    /\ response = [status |-> 0, body |-> EmptyBody]
    /\ sql = <<>>
    /\ tasks = <<>>

NextKeys ==
    \/ ListKeyedObjects
    \/ CreateKeyedObject
    \/ UpdateKeyedObject
    \/ DeleteKeyedObject

SpecKeys == InitKeys /\ [][NextKeys]_vars

-----------------------------------------------------------------------------
(* The catalog: directories created, dropped and listed in any order *)

\* The names the catalog runs create and drop; one needs its quote escaped.
CatalogNames == { <<"t">>, <<"u">>, <<DQ, SEMI>> }

CatalogSchemas ==
    { << Property("id", "serial", None, Some(<<"PRIMARY KEY">>)) >>,
      << >>,
      << Property("name", "varchar(50)", None, None) >> }

CreateCatalogDirectory == CreateDirectoryOf(CatalogNames, CatalogSchemas)

DeleteCatalogDirectory ==
    \E d \in CatalogNames, conn \in BOOLEAN :
        LET req == [directory |-> d]
        IN  Finish("deleteDirectory", req, conn, delete_directory(tables, req, conn))

NextCatalog ==
    \/ ListDirectories
    \/ CreateCatalogDirectory
    \/ DeleteCatalogDirectory

SpecCatalog == Init /\ [][NextCatalog]_vars

-----------------------------------------------------------------------------
(* The pool: concurrent requests, each a task that calls pool.get(), sends  *)
(* its statements one await at a time and drops the connection when its     *)
(* future ends: by returning, by the ? of a failed step, or by being         *)
(* dropped when the timeout layer gives up on it.                            *)
(*   tasks[p] = [pc |-> "idle" | "waiting" | "holding" | "done",             *)
(*               left |-> statements its handler has still to send,          *)
(*               conns |-> pooled connections it holds]                      *)

\* Pool::builder().max_size(5)
max_size == 5

\* concurrent requests
MaxRequests == 6

Requests == 1..MaxRequests

\* The statements a handler sends over its connection.
Statements(handler) ==
    CASE handler \in {"objects", "generate_dummy"} -> 4
      [] handler \in {"update_object", "delete_object"} -> 2
      [] OTHER -> 1

\* The handler the concurrent requests run: the key lookup, then the UPDATE.
PoolHandlers == { "update_object" }

RECURSIVE HeldUpTo(_, _)
HeldUpTo(ts, n) == IF n = 0 THEN 0 ELSE ts[n].conns + HeldUpTo(ts, n - 1)

\* The connections out of the pool.
InUse(ts) == HeldUpTo(ts, Len(ts))

\* A pool that hands out a connection whenever it is asked.
AvailableAlways(ts) == TRUE

\* Pool::get has a connection to give while fewer than max_size are out.
Available(ts) == InUse(ts) < max_size

\* A task that has ended: its future, and the connection in it, is dropped.
Dropped == [pc |-> "done", left |-> 0, conns |-> 0]

\* The timeout layer's answer.
RequestTimedOut == [status |-> 408, body |-> EmptyBody]

End(p, out, resp) ==
    /\ tasks' = [tasks EXCEPT ![p] = Dropped]
    /\ outcome' = out
    /\ response' = resp
    /\ UNCHANGED <<tables, request, sql>>

\* A request arrives and its handler calls pool.get().  Requests are numbered
\* in the order they arrive.
Arrive ==
    \E p \in Requests, h \in PoolHandlers :
        /\ tasks[p].pc = "idle"
        /\ p > 1 => tasks[p - 1].pc # "idle"
        /\ tasks' = [tasks EXCEPT ![p] = [pc |-> "waiting", left |-> Statements(h), conns |-> 0]]
        /\ UNCHANGED <<tables, request, outcome, response, sql>>

\* pool.get() yields a connection.
Acquire ==
    \E p \in Requests :
        /\ tasks[p].pc = "waiting"
        /\ Available(tasks)
        /\ tasks' = [tasks EXCEPT ![p].pc = "holding", ![p].conns = @ + 1]
        /\ UNCHANGED <<tables, request, outcome, response, sql>>

\* pool.get() gives up: Err(RunError::TimedOut), returned by ? as Bb8Postgres.
GetFails ==
    \E p \in Requests :
        /\ tasks[p].pc = "waiting"
        /\ End(p, "Bb8Postgres", into_response("Bb8Postgres"))

\* A statement succeeds and the handler goes on to its next one.
QueryOk ==
    \E p \in Requests :
        /\ tasks[p].pc = "holding"
        /\ tasks[p].left > 1
        /\ tasks' = [tasks EXCEPT ![p].left = @ - 1]
        /\ UNCHANGED <<tables, request, outcome, response, sql>>

\* The last statement succeeds and the handler returns Ok.
Return ==
    \E p \in Requests :
        /\ tasks[p].pc = "holding"
        /\ tasks[p].left = 1
        /\ End(p, "ok", [status |-> 200, body |-> EmptyBody])

\* A step fails and ? returns its error: the database's, or NoPrimaryKey
\* when the key lookup, the first of the two statements, finds no row.
QueryFails ==
    \E p \in Requests, e \in {"Postgres", "NoPrimaryKey"} :
        /\ tasks[p].pc = "holding"
        /\ e = "NoPrimaryKey" => tasks[p].left = Statements("update_object")
        /\ End(p, e, into_response(e))

\* TimeoutLayer: the request's time is up at whatever await it stands.
TimeoutOf(p) ==
    /\ tasks[p].pc \in {"waiting", "holding"}
    /\ End(p, "timeout", RequestTimedOut)

RequestTimeout == \E p \in Requests : TimeoutOf(p)

InitPool ==
    /\ tables = <<>>
    /\ request = [op |-> "none"]
    /\ outcome = "none"
    /\ response = [status |-> 0, body |-> EmptyBody]
    /\ sql = <<>>
    /\ tasks = [p \in Requests |-> [pc |-> "idle", left |-> 0, conns |-> 0]]

NextPool ==
    \/ Arrive
    \/ Acquire
    \/ GetFails
    \/ QueryOk
    \/ Return
    \/ QueryFails
    \/ RequestTimeout

\* The timers run: while a request is in flight, one runs out at last.
SpecPool == InitPool /\ [][NextPool]_vars /\ WF_vars(RequestTimeout)

-----------------------------------------------------------------------------
(* The race: update_object and delete_object look the key up and send the   *)
(* mutation as two statements with an await between them, while             *)
(* create_directory, delete_directory and create_object of other requests   *)
(* run against the same database.                                           *)
(*   tasks[1] = [pc |-> "idle"] or                                           *)
(*              [pc |-> "resolved", op, req, rows |-> the lookup's rows]     *)

\* rows the raced directory may hold
MaxRaceRows == 2

RaceSchemas ==
    { << Property("id", "text", None, Some(<<"PRIMARY KEY">>)), Property("label", "text", None, None) >>,
      << Property("k", "text", None, Some(<<"PRIMARY KEY">>)), Property("id", "text", None, None) >> }

RaceMaps ==
    { << <<(<<"id">>), <<"a">>>>, <<(<<"label">>), <<"x">>>> >>,
      << <<(<<"k">>), <<"1">>>>, <<(<<"id">>), <<"a">>>> >>,
      << <<(<<"k">>), <<"2">>>>, <<(<<"id">>), <<"a">>>> >> }

RaceIds == { <<"a">> }

NoTask == << [pc |-> "idle"] >>

\* The second half of the handler, given the result k of its key lookup.
WithKey(op, tbls, req, k) ==
    IF op = "updateObject" THEN UpdateWithKey(tbls, req, k) ELSE DeleteWithKey(tbls, req, k)

\* The handler's future ends with ret.
Settle(op, req, ret) ==
    /\ tables' = ret.tables
    /\ request' = [op |-> op, req |-> req, conn |-> TRUE]
    /\ outcome' = IF IsSome(ret.error) THEN ret.error[1] ELSE "ok"
    /\ response' = Respond(ret)
    /\ sql' = ret.sent
    /\ tasks' = NoTask

\* The key lookup answered k: the handler ends on an error or no row, or it
\* stands at the await of its second statement with the key it read.
Resolved(op, req, k) ==
    IF ~k.ok \/ k.rows = <<>>
    THEN Settle(op, req, WithKey(op, tables, req, k))
    ELSE /\ tasks' = << [pc |-> "resolved", op |-> op, req |-> req, rows |-> k.rows] >>
         /\ request' = [op |-> op, req |-> req, conn |-> TRUE]
         /\ outcome' = "pending"
         /\ sql' = <<PrimaryKeySql>>
         /\ UNCHANGED <<tables, response>>

\* update_object / delete_object up to the key lookup
Resolve ==
    \E op \in {"updateObject", "deleteObject"}, d \in Directories, id \in RaceIds :
        LET req == [directory |-> d, id |-> id,
                    properties |-> IF op = "updateObject" THEN << <<(<<"label">>), <<"y">>>> >>
                                   ELSE Some(<<>>)]
        IN  /\ tasks[1].pc = "idle"
            /\ Resolved(op, req, query_opt(tables, PrimaryKeySql, d))

\* update_object / delete_object from the key lookup on: the statement is
\* rendered with the key that was read and runs on the tables as they are now.
Mutate ==
    /\ tasks[1].pc = "resolved"
    /\ Settle(tasks[1].op, tasks[1].req,
              WithKey(tasks[1].op, tables, tasks[1].req, Done(tables, tasks[1].rows)))

RaceCreateDirectory == CreateDirectoryOf(Directories, RaceSchemas)
RaceCreateObject == CreateObjectOf(Directories, RaceMaps, MaxRaceRows)

InitRace ==
    /\ tables = <<>>
    /\ request = [op |-> "none"]
    /\ outcome = "none"
    /\ response = [status |-> 0, body |-> EmptyBody]
    /\ sql = <<>>
    /\ tasks = NoTask

NextRace ==
    \/ Resolve
    \/ Mutate
    \/ RaceCreateDirectory
    \/ DeleteDirectory
    \/ RaceCreateObject

SpecRace == InitRace /\ [][NextRace]_vars

-----------------------------------------------------------------------------
(* Authorization (auth.rs): the middleware in front of every route.  A      *)
(* header value is a sequence of bytes: the text "Bearer ", the letters of  *)
(* a token, or a byte outside visible ASCII.                                *)

\* bytes (chunks) of an Authorization header
MaxHeaderLen == 3

\* A byte HeaderValue accepts that is not visible ASCII (0x80..0xFF).
OPAQUE == "\\xFF"

HeaderBytes == { "Bearer ", "s", "x", OPAQUE }

Headers == { None } \cup { Some(h) : h \in UNION { [1..n -> HeaderBytes] : n \in 0..MaxHeaderLen } }

\* std::env::var("TOKEN").ok(): not set, empty, or a secret
Tokens == { None, Some(<<>>), Some(<<"s">>), Some(<<"s", "x">>) }

Builds == { "debug", "release" }

\* HeaderValue::to_str: the text of the value, if every byte is visible ASCII
to_str(value) ==
    IF \A i \in 1..Len(value) : value[i] # OPAQUE THEN Some(value) ELSE None

\* token.map(|token| format!("Bearer {token}"))
BearerOf(token) == IF IsSome(token) THEN Some(<<"Bearer ">> \o token[1]) ELSE None

\* authorization.to_str().ok() == token.map(..).as_deref() && authorization.len() > 0
Passes(authorization, token) ==
    /\ to_str(authorization) = BearerOf(token)
    /\ Len(authorization) > 0

\* Result<Response, StatusCode>: Ok(next.run(request).await) or Err(status)
RunNext == [next |-> TRUE, status |-> 0]
Refuse(status) == [next |-> FALSE, status |-> status]

\* authorize
authorize(build, header, token) ==
    IF build = "debug" THEN RunNext
    ELSE IF IsSome(header)
         THEN IF Passes(header[1], token) THEN RunNext ELSE Refuse(401)
         ELSE Refuse(400)

\* The request goes through the middleware and, if passed on, to the handler
\* of GET /directories.
Authorized(req, verdict, ret) ==
    /\ request.op = "none"
    /\ request' = req
    /\ outcome' = IF verdict.next THEN "passed" ELSE "refused"
    /\ response' = IF verdict.next THEN Respond(ret) ELSE [status |-> verdict.status, body |-> EmptyBody]
    /\ sql' = IF verdict.next THEN ret.sent ELSE <<>>
    /\ UNCHANGED <<tables, tasks>>

Authorize ==
    \E build \in Builds, header \in Headers, token \in Tokens :
        Authorized([op |-> "authorize", build |-> build, header |-> header, token |-> token],
                   authorize(build, header, token),
                   directories(tables, TRUE))

NextAuth == Authorize

SpecAuth == Init /\ [][NextAuth]_vars

-----------------------------------------------------------------------------
(* Properties *)

T == <<"t">>
Max(a, b) == IF a >= b THEN a ELSE b

\* The directory of the end-to-end scenario: id serial PRIMARY KEY, label text.
E2EProperties ==
    << Property("id", "serial", None, Some(<<"PRIMARY KEY">>)), Property("label", "text", None, None) >>

\* t is that directory and holds the rows with the given labels, ids from 1.
E2EHolds(tbls, labels) ==
    /\ T \in DOMAIN tbls
    /\ tbls[T].key = << <<"id">> >>
    /\ ColNames(tbls[T]) = { <<"id">>, <<"label">> }
    /\ Len(tbls[T].rows) = Len(labels)
    /\ \A i \in 1..Len(labels) :
          tbls[T].rows[i] = [n \in ColNames(tbls[T]) |->
                               IF n = <<"id">> THEN IntV(i) ELSE TextV(labels[i])]

LabelMap(l) == << <<(<<"label">>), l>> >>

\* C1: the end-to-end sequence.  createDirectory(t, [id serial PRIMARY KEY,
\* label text]) and createObject(t, {label: x}) succeed; listObjects(t) then
\* returns one row with label x, primary_key id and count 1; updateObject(t,
\* 1, {label: y}) succeeds and leaves label y; deleteObject(t, 1) succeeds
\* and leaves no row; listObjects then returns no row and count 0.  Every
\* step taken with a connection succeeds.
C1_EndToEnd ==
    [][ /\ ( /\ request'.op = "createDirectory" /\ request'.conn
             /\ tables = <<>> /\ request'.req = [directory |-> T, properties |-> E2EProperties] )
           => outcome' = "ok" /\ E2EHolds(tables', <<>>)
        /\ ( /\ request'.op = "createObject" /\ request'.conn
             /\ E2EHolds(tables, <<>>)
             /\ request'.req = [directory |-> T, properties |-> LabelMap(<<"x">>)] )
           => outcome' = "ok" /\ E2EHolds(tables', << <<"x">> >>)
        /\ ( /\ request'.op = "listObjects" /\ request'.conn
             /\ E2EHolds(tables, << <<"x">> >>)
             /\ request'.req = [directory |-> T, cursor |-> None] )
           => /\ outcome' = "ok"
              /\ Len(response'.body.objects) = 1
              /\ response'.body.objects[1][1].m[<<"label">>] = JStr(<<"x">>)
              /\ response'.body.primary_key = Some(<<"id">>)
              /\ response'.body.count = 1
        /\ ( /\ request'.op = "updateObject" /\ request'.conn
             /\ E2EHolds(tables, << <<"x">> >>)
             /\ request'.req = [directory |-> T, id |-> <<"1">>, properties |-> LabelMap(<<"y">>)] )
           => outcome' = "ok" /\ E2EHolds(tables', << <<"y">> >>)
        /\ ( /\ request'.op = "deleteObject"
             /\ E2EHolds(tables, << <<"y">> >>)
             /\ request'.req.id = <<"1">> )
           => outcome' = "ok" /\ E2EHolds(tables', <<>>)
        /\ ( /\ request'.op = "listObjects" /\ request'.conn
             /\ E2EHolds(tables, <<>>)
             /\ request'.req = [directory |-> T, cursor |-> None] )
           => /\ outcome' = "ok"
              /\ response'.body.objects = <<>>
              /\ response'.body.count = 0
      ]_vars

\* The directory has no primary-key index (or does not exist at all).
HasNoKey(tbls, d) == d \notin DOMAIN tbls \/ tbls[d].key = <<>>

C3_Pagination ==
    ( /\ request.op = "listObjects"
      /\ request.conn
      /\ request.req.directory \in DOMAIN tables
      /\ CursorOrZero(request.req.cursor) >= 0 )
    => LET N == Len(tables[request.req.directory].rows)
           c == CursorOrZero(request.req.cursor)
       IN  /\ outcome = "ok"
           /\ response.status = 200
           /\ Len(response.body.objects) = Min(10, Max(0, N - c))
           /\ response.body.count = N

\* A full page of a longer directory, and an empty page past its end.
C3_Witness ==
    /\ request.op = "listObjects"
    /\ outcome = "ok"
    /\ response.body.count > 10
    /\ \/ CursorOrZero(request.req.cursor) = 1 /\ Len(response.body.objects) = 10
       \/ CursorOrZero(request.req.cursor) > response.body.count /\ response.body.objects = <<>>


\* The fixed text of the CREATE TABLE template around the quoted tokens.
CreatePunctuation == { "CREATE TABLE ", " (", ", ", ")", " ", " DEFAULT " }

\* The unquoted tokens of a CREATE TABLE that are not its template: the
\* constraint text it carries, in order.
ConstraintText(text) ==
    LET outside(t) == t.k = "err" \/ (t.k = "raw" /\ t.v[1] \notin CreatePunctuation)
    IN  SelectSeq(Lex(text), outside)

\* The allow-listed constraints of the properties, in order.
AllowedConstraints(props) ==
    LET allowed(p) == IsSome(p.constraint) /\ p.constraint[1] \in VALID_CONSTRAINTS
        kept == SelectSeq(props, allowed)
    IN  [i \in 1..Len(kept) |-> Tok("raw", kept[i].constraint[1])]

WithoutConstraint(p) == [p EXCEPT !.constraint = None]

\* C4: the constraint allow-list.  The constraint text of the CREATE TABLE
\* statement is exactly the allow-listed tokens of the properties, one
\* keyword each, in order; a property whose token is not PRIMARY KEY, NOT
\* NULL or UNIQUE is rendered as if it had no constraint, and the statement
\* is accepted as that one would be.
C4_ConstraintAllowList ==
    request.op = "createDirectory" =>
        LET props == request.req.properties
        IN  /\ ConstraintText(sql[1]) = AllowedConstraints(props)
            /\ \A i \in 1..Len(props) :
                  ( IsSome(props[i].constraint) /\ props[i].constraint[1] \notin VALID_CONSTRAINTS )
                  => /\ ColumnDef(props[i]) = ColumnDef(WithoutConstraint(props[i]))
                     /\ Parse(sql[1]) =
                          Parse(CreateDirectorySql(
                                  [request.req EXCEPT !.properties[i] = WithoutConstraint(props[i])]))

\* A CREATE TABLE was rendered for a property with a constraint token outside
\* the allow-list, and the database would accept it.
C4_Witness ==
    /\ request.op = "createDirectory"
    /\ request.req.properties[2].constraint = Some(<<"CHECK (1=1)">>)
    /\ Parse(sql[1]).op = "create"
    /\ Execute(<<>>, sql[1], <<>>).ok

\* The stored row a returned object was made from.
StoredRow(i) ==
    tables[request.req.directory].rows[CursorOrZero(request.req.cursor) + i]

TemplateChunks ==
    CreatePunctuation \cup
    { "DROP TABLE ", ColumnsSql([directory |-> <<>>])[1],
      "SELECT row_to_json(", ".*) FROM ", " LIMIT ", " OFFSET ", "SELECT COUNT(*) FROM ",
      PrimaryKeySql[1], "INSERT INTO ", ") VALUES (", "UPDATE ", " SET ", " = ", " WHERE ",
      " = $1", "DELETE FROM " }

\* The strings of a request in the order its handler interpolates them.
UserStrings(op, req) ==
    CASE op = "createDirectory" ->
            <<req.directory>> \o
            Concat([i \in 1..Len(req.properties) |->
                      <<req.properties[i].name, req.properties[i].ty>> \o req.properties[i].default])
      [] op = "deleteDirectory" -> <<req.directory>>
      [] op = "listObjects" -> <<req.directory, req.directory, req.directory, req.directory>>
      [] op = "createObject" -> <<req.directory>> \o Keys(req.properties) \o Values(req.properties)
      [] op = "updateObject" -> <<req.directory>> \o Concat(req.properties) \o <<req.primary_key>>
      [] op = "deleteObject" -> <<req.directory, req.primary_key>>

\* The values of the quoted tokens of the statements sent, in order.
QuotedValues(texts) ==
    LET quoted(t) == t.k \in {"ident", "lit"}
        toks == SelectSeq(Concat(Map(Lex, texts)), quoted)
    IN  [i \in 1..Len(toks) |-> toks[i].v]

\* C6: escaping round trip.  For every string of a request, the identifier
\* token and the literal token the escaper makes of it are each read back by
\* the database as one quoted token whose value is that string; and in the
\* statements of every handler, the quoted tokens are exactly the request's
\* strings, in order, while everything outside them is the handler's own
\* template, an allow-listed constraint or the cursor's digits: no character
\* of the input closes the quoting.
C6_EscapingRoundTrip ==
    request.op # "none" =>
        LET strings == UserStrings(request.op, request.req)
            toks == Concat(Map(Lex, sql))
        IN  /\ \A i \in 1..Len(strings) :
                  /\ Lex(escape_identifier(strings[i])) = <<Tok("ident", strings[i])>>
                  /\ Lex(escape_literal(strings[i])) = <<Tok("lit", strings[i])>>
            /\ \A i \in 1..Len(toks) :
                  /\ toks[i].k # "err"
                  /\ toks[i].k = "raw" =>
                        \/ toks[i].v[1] \in TemplateChunks
                        \/ toks[i].v \in VALID_CONSTRAINTS
                        \/ IsIntText(toks[i].v[1])
            /\ QuotedValues(sql) = strings

\* A directory name made of a double quote and a semicolon went through DROP
\* TABLE and came out as one identifier.
C6_Witness ==
    /\ request.op = "deleteDirectory"
    /\ request.req.directory = <<DQ, SEMI>>
    /\ sql = << <<"DROP TABLE ", DQ, DQ, DQ, SEMI, DQ>> >>

\* C7: updateObject renders UPDATE <dir> SET <col> = <lit>, ... WHERE <pk> =
\* $1 with the directory, every column name and the key as identifiers and
\* every value as a literal, each column paired with its own value: the
\* statement the database reads is the update of exactly those columns.
C7_UpdateStatement ==
    ( request.op = "updateObject" /\ Len(sql) = 2 /\ request.req.properties # <<>> ) =>
        Parse(sql[2]) = [op |-> "update",
                         table |-> request.req.directory,
                         sets |-> request.req.properties,
                         key |-> tables[request.req.directory].key[1]]

\* C8: createDirectory gives the table one column per property, in order,
\* with the caller's SQL type: with a connection, for a directory that does
\* not exist yet, it succeeds and the table has the properties' columns.
C8_ColumnPerProperty ==
    [][ ( /\ request'.op = "createDirectory"
          /\ request'.conn
          /\ request'.req.directory \notin DOMAIN tables )
        => ( /\ outcome' = "ok"
             /\ request'.req.directory \in DOMAIN tables'
             /\ LET cols == tables'[request'.req.directory].cols
                    props == request'.req.properties
                IN  /\ Len(cols) = Len(props)
                    /\ \A i \in 1..Len(props) : cols[i].name = props[i].name )
      ]_vars

\* C9: error mapping.  A request ends in success (200) or in one Error;
\* NoPrimaryKey is answered 400 with its message and is the only error
\* answered as a client fault; every other Error is answered 500 with the
\* body "Unexpected error".
C9_ErrorMapping ==
    /\ outcome \in Errors \cup {"ok", "rejected", "none"}
    /\ outcome = "ok" => response.status = 200
    /\ outcome = "NoPrimaryKey" =>
          response = [status |-> 400, body |-> TextBody("no primary key found for table")]
    /\ outcome \in Errors \ {"NoPrimaryKey"} =>
          response = [status |-> 500, body |-> TextBody("Unexpected error")]
    /\ (response.status = 400 /\ outcome # "rejected") => outcome = "NoPrimaryKey"
    /\ \A e \in Errors \ {"NoPrimaryKey"} :
          into_response(e) = [status |-> 500, body |-> TextBody("Unexpected error")]

\* A statement the database refused was answered with the generic failure.
C9_Witness ==
    /\ outcome = "Postgres"
    /\ Len(sql) >= 1
    /\ response.status = 500

\* C10: a deleteObject request that carries only a directory and an id is
\* accepted and ends in success, NoPrimaryKey or a database error.
C10_DeleteTakesDirectoryAndId ==
    ( request.op = "deleteObject" /\ request.req.properties = None ) =>
        outcome \in {"ok", "NoPrimaryKey", "Postgres", "Bb8Postgres"}

\* C11: primary-key resolution does not fail on the shape of the key.  With a
\* connection, on an existing directory, listObjects succeeds and reports the
\* single key column, none for a keyless directory, and the first column of
\* a key of several columns; updateObject and deleteObject on a directory
\* whose key has one or several columns go on to send their statement with
\* the first key column.
C11_KeyResolution ==
    ( /\ request.op \in {"listObjects", "updateObject", "deleteObject"}
      /\ request.conn
      /\ request.req.directory \in DOMAIN tables )
    => LET key == tables[request.req.directory].key
       IN  IF request.op = "listObjects"
           THEN /\ outcome = "ok"
                /\ response.body.primary_key = IF key = <<>> THEN None ELSE Some(key[1])
           ELSE key # <<>> =>
                /\ Len(sql) = 2
                /\ Lex(sql[2])[Len(Lex(sql[2])) - 1] = Tok("ident", key[1])

\* The names listDirectories answers for the given tables.
Listed(tbls) ==
    LET names == directories(tbls, TRUE).body.names
    IN  { names[i] : i \in 1..Len(names) }

\* C12: catalog freshness.  With a connection, listDirectories answers
\* exactly the tables that exist at the call, each once; right after a
\* successful createDirectory(name) the list holds name and right after a
\* successful deleteDirectory(name) it does not; deleteDirectory of a name that
\* is no table and createDirectory of a name that is one end in a database
\* error and leave the tables as they were.
C12_CatalogFreshness ==
    [][ LET op == request'.op
            name == request'.req.directory
        IN  /\ (op = "listDirectories" /\ request'.conn) =>
                   /\ outcome' = "ok"
                   /\ tables' = tables
                   /\ { response'.body.names[i] : i \in 1..Len(response'.body.names) } = DOMAIN tables
                   /\ Len(response'.body.names) = Cardinality(DOMAIN tables)
            /\ (op = "createDirectory" /\ outcome' = "ok") =>
                   /\ name \in DOMAIN tables'
                   /\ name \in Listed(tables')
                   /\ Listed(tables') = Listed(tables) \cup {name}
            /\ (op = "deleteDirectory" /\ outcome' = "ok") =>
                   /\ name \notin DOMAIN tables'
                   /\ name \notin Listed(tables')
                   /\ Listed(tables') = Listed(tables) \ {name}
            /\ (op = "deleteDirectory" /\ request'.conn /\ name \notin DOMAIN tables) =>
                   outcome' = "Postgres" /\ tables' = tables
            /\ (op = "createDirectory" /\ request'.conn /\ name \in DOMAIN tables) =>
                   outcome' = "Postgres" /\ tables' = tables
      ]_vars

\* A drop of a name that is no table was refused while two others exist, one
\* of them the name with a quote in it.
C12_Witness ==
    /\ request.op = "deleteDirectory"
    /\ request.conn
    /\ outcome = "Postgres"
    /\ request.req.directory = <<"u">>
    /\ DOMAIN tables = { <<"t">>, <<DQ, SEMI>> }

\* C13: under every interleaving of concurrent requests, a request holds at
\* most one pooled connection, at most 5 connections are out at once, a
\* request that is idle or has ended (by returning, by a failed step or by
\* the timeout) holds none, a request that ends while it waits for a
\* connection is answered with an error, and every request that arrived ends
\* at last: from some point on no request waits or holds a connection.
C13_PoolDiscipline ==
    /\ [](\A p \in Requests :
            /\ tasks[p].conns <= 1
            /\ tasks[p].conns = IF tasks[p].pc = "holding" THEN 1 ELSE 0)
    /\ [](InUse(tasks) <= 5)
    /\ [][ \A p \in Requests :
              (tasks[p].pc = "waiting" /\ tasks'[p].pc = "done")
              => /\ response'.status \in {500, 408}
                 /\ outcome' \in {"Bb8Postgres", "timeout"} ]_vars
    /\ <>[](\A p \in Requests : tasks[p].pc \in {"idle", "done"})

\* The pool is exhausted: five requests hold a connection and a sixth waits.
C13_Witness ==
    /\ InUse(tasks) = max_size
    /\ \E p \in Requests : tasks[p].pc = "waiting"

\* The row is the one the directory's present primary key identifies by id.
IsRowOfId(t, row, id) == t.key # <<>> /\ row[t.key[1]] = TextV(id)

\* C14: the second step of updateObject / deleteObject, whatever ran between
\* it and the key lookup.  If it succeeds, the directory exists, every row it
\* removed or changed is the row whose value of the directory's present
\* primary key equals id, and that is at most one row; if the directory was
\* dropped in between, it ends in the database error and changes nothing.
C14_TwoStepMutation ==
    [][ ( tasks[1].pc = "resolved" /\ tasks'[1].pc = "idle" ) =>
          LET d == tasks[1].req.directory
              id == tasks[1].req.id
          IN  /\ d \notin DOMAIN tables => outcome' = "Postgres" /\ tables' = tables
              /\ outcome' = "ok" =>
                    /\ d \in DOMAIN tables
                    /\ d \in DOMAIN tables'
                    /\ LET t == tables[d]
                           hit == { r \in 1..Len(t.rows) : IsRowOfId(t, t.rows[r], id) }
                           kept(row) == ~IsRowOfId(t, row, id)
                       IN  /\ Cardinality(hit) <= 1
                           /\ IF tasks[1].op = "deleteObject"
                              THEN \/ tables'[d].rows = t.rows
                                   \/ tables'[d].rows = SelectSeq(t.rows, kept)
                              ELSE /\ Len(tables'[d].rows) = Len(t.rows)
                                   /\ \A r \in 1..Len(t.rows) :
                                         r \notin hit => tables'[d].rows[r] = t.rows[r]
      ]_vars

\* C15: the authorization gate of a release build.  A request is passed to
\* its handler exactly when it has an Authorization header whose value is
\* "Bearer " followed by the configured token; without the header it is
\* answered 400, with any other value 401, and no statement is sent for it;
\* when no token is configured nothing is passed on, whatever the bytes of
\* the header.
C15_AuthorizationGate ==
    ( request.op = "authorize" /\ request.build = "release" ) =>
        LET header == request.header
            token == request.token
            matches == /\ IsSome(header)
                       /\ IsSome(token)
                       /\ header[1] = <<"Bearer ">> \o token[1]
        IN  /\ outcome = "passed" <=> matches
            /\ header = None => response.status = 400 /\ sql = <<>>
            /\ (IsSome(header) /\ ~matches) => response.status = 401 /\ sql = <<>>
            /\ token = None => outcome # "passed"

====
